---- MODULE Spec2Model ----
(***************************************************************************)
(* A model of examples/interop_demo.py: main() reads the JSON document     *)
(* azure_credentials.json, prints selected fields, adds the python_* keys  *)
(* and writes the result to azure_credentials.python.json.                 *)
(*                                                                         *)
(* JSON values are tagged records [t, v].  A mapping is the sequence of    *)
(* its <<key, value>> pairs in insertion order (a Python dict), a string   *)
(* is a TLA+ string, a number is an integer.  A file holds text: json.load *)
(* and json.dump are modelled character by character.                      *)
(* The non-ASCII pictographs of the printed lines are left out.            *)
(***************************************************************************)
EXTENDS Integers, Sequences, FiniteSets, TLC

VARIABLES pc, files, files0, opened, loaded, config, stdout, ret, exc, now, version_info

vars == <<pc, files, files0, opened, loaded, config, stdout, ret, exc, now, version_info>>

(***************************************************************************)
(* JSON / Python values                                                    *)
(***************************************************************************)
Str(s) == [t |-> "str", v |-> s]
Num(n) == [t |-> "num", v |-> n]
Bool(b) == [t |-> "bool", v |-> b]
Null == [t |-> "null", v |-> 0]
Map(pairs) == [t |-> "map", v |-> pairs]
List(items) == [t |-> "list", v |-> items]

Min(a, b) == IF a < b THEN a ELSE b

\* k in d, for a dict d given by its pairs
HasKey(m, k) == \E i \in 1..Len(m) : m[i][1] = k

\* d[k], for a dict d that has k
Lookup(m, k) == m[CHOOSE i \in 1..Len(m) : m[i][1] = k][2]

\* A bug variant of SetKey: the assignment accumulates an entry instead of
\* overwriting the one the key already has.
SetKeyAccumulate(m, k, val) == Append(m, <<k, val>>)

\* A bug variant of SetKey: the assignment clears the mapping first.
SetKeyClobber(m, k, val) == << <<k, val>> >>

\* d[k] = val: overwrite in place when k is there, add at the end otherwise
SetKey(m, k, val) ==
    IF HasKey(m, k)
    THEN [i \in 1..Len(m) |-> IF m[i][1] = k THEN <<k, val>> ELSE m[i]]
    ELSE Append(m, <<k, val>>)

\* whether needle occurs in hay (str.__contains__)
IsSubstring(needle, hay) ==
    \E i \in 1..(Len(hay) - Len(needle) + 1) :
        SubSeq(hay, i, i + Len(needle) - 1) = needle

\* The exception `k in x` raises, "none" when it raises none.
PyInExc(x) == IF x.t \in {"map", "list", "str"} THEN "none" ELSE "TypeError"

\* `k in x` for a string k, where it raises nothing
PyIn(k, x) ==
    CASE x.t = "map" -> HasKey(x.v, k)
      [] x.t = "list" -> \E i \in 1..Len(x.v) : x.v[i] = Str(k)
      [] x.t = "str" -> k = "" \/ IsSubstring(k, x.v)
      [] OTHER -> FALSE

\* The exception `x[k]` raises for a string k, "none" when it raises none.
PyGetItemExc(x, k) ==
    IF x.t = "map"
    THEN IF HasKey(x.v, k) THEN "none" ELSE "KeyError"
    ELSE "TypeError"

\* `x[k]` for a string k, where it raises nothing
PyGetItem(x, k) == Lookup(x.v, k)

\* The exceptions `x[:n]` may raise; the empty set when it raises none.  A
\* dict sliced raises TypeError (unhashable slice) before Python 3.12 and
\* KeyError from 3.12 on.
PySliceExcs(x) ==
    CASE x.t \in {"str", "list"} -> {}
      [] x.t = "map" -> {"TypeError", "KeyError"}
      [] OTHER -> {"TypeError"}

\* `x[:n]`, where it raises nothing
PySlice(x, n) == [t |-> x.t, v |-> SubSeq(x.v, 1, Min(n, Len(x.v)))]

\* x.get(k, default) raises AttributeError unless x is a dict
PyGetExc(x) == IF x.t = "map" THEN "none" ELSE "AttributeError"

\* x.get(k, default) of a dict
PyGet(x, k, default) == IF HasKey(x.v, k) THEN Lookup(x.v, k) ELSE default

\* The exception `x[k] = val` raises for a string k, "none" when none.
PySetItemExc(x) == IF x.t = "map" THEN "none" ELSE "TypeError"

\* `x[k] = val` of a dict
PySetItem(x, k, val) == Map(SetKey(x.v, k, val))

(***************************************************************************)
(* str() and repr(), as the f-strings of main() apply them                 *)
(***************************************************************************)
Digit(d) == SubSeq("0123456789", d + 1, d + 1)

RECURSIVE NatStr(_)
NatStr(n) == IF n < 10 THEN Digit(n) ELSE NatStr(n \div 10) \o Digit(n % 10)

IntStr(n) == IF n < 0 THEN "-" \o NatStr(-n) ELSE NatStr(n)

\* One character of repr(str) inside the quote q
ReprChar(c, q) ==
    CASE c = "\\" -> "\\\\"
      [] c = q -> "\\" \o q
      [] c = "\n" -> "\\n"
      [] c = "\r" -> "\\r"
      [] c = "\t" -> "\\t"
      [] c = "\f" -> "\\x0c"
      [] OTHER -> c

RECURSIVE ReprChars(_, _, _)
ReprChars(s, i, q) ==
    IF i > Len(s) THEN "" ELSE ReprChar(SubSeq(s, i, i), q) \o ReprChars(s, i + 1, q)

\* repr(str): single quotes, unless the string holds one and no double quote
ReprStr(s) ==
    LET q == IF IsSubstring("'", s) /\ ~IsSubstring("\"", s) THEN "\"" ELSE "'"
    IN q \o ReprChars(s, 1, q) \o q

RECURSIVE PyRepr(_)
RECURSIVE ReprItems(_)
RECURSIVE ReprPairs(_)
PyRepr(x) ==
    CASE x.t = "str" -> ReprStr(x.v)
      [] x.t = "num" -> IntStr(x.v)
      [] x.t = "bool" -> IF x.v THEN "True" ELSE "False"
      [] x.t = "null" -> "None"
      [] x.t = "list" -> "[" \o ReprItems(x.v) \o "]"
      [] x.t = "map" -> "{" \o ReprPairs(x.v) \o "}"

ReprItems(s) ==
    IF s = <<>> THEN ""
    ELSE PyRepr(Head(s)) \o (IF Len(s) > 1 THEN ", " ELSE "") \o ReprItems(Tail(s))

ReprPairs(s) ==
    IF s = <<>> THEN ""
    ELSE ReprStr(Head(s)[1]) \o ": " \o PyRepr(Head(s)[2])
         \o (IF Len(s) > 1 THEN ", " ELSE "") \o ReprPairs(Tail(s))

\* format(x, ""), what an f-string field {x} yields
PyStr(x) == IF x.t = "str" THEN x.v ELSE PyRepr(x)

\* x[p1][p2]...: the exception the chain of subscripts raises, "none" when none
RECURSIVE GetPathExc(_, _)
GetPathExc(x, path) ==
    IF path = <<>> THEN "none"
    ELSE IF PyGetItemExc(x, Head(path)) # "none" THEN PyGetItemExc(x, Head(path))
    ELSE GetPathExc(PyGetItem(x, Head(path)), Tail(path))

\* x[p1][p2]..., where it raises nothing
RECURSIVE GetPath(_, _)
GetPath(x, path) ==
    IF path = <<>> THEN x ELSE GetPath(PyGetItem(x, Head(path)), Tail(path))

RECURSIVE Rep(_, _)
Rep(s, n) == IF n = 0 THEN "" ELSE s \o Rep(s, n - 1)

(***************************************************************************)
(* Program constants                                                       *)
(***************************************************************************)
config_file == "azure_credentials.json"
output_file == "azure_credentials.python.json"

VisibleChars == 20
Ellipsis == "..."
BannerWidth == 60
Banner == Rep("=", BannerWidth)

Packages ==
    Map(<< <<"azure-storage-blob", Str("12.19.0")>>, <<"requests", Str("2.31.0")>> >>)

Features ==
    Map(<< <<"async_enabled", Bool(TRUE)>>,
           <<"retry_count", Num(3)>>,
           <<"timeout_seconds", Num(30)>> >>)

\* f"{major}.{minor}.{micro}"
VersionStr(vi) == IntStr(vi[1]) \o "." \o IntStr(vi[2]) \o "." \o IntStr(vi[3])

(***************************************************************************)
(* Outcomes of a statement sequence: the exception raised ("none" when     *)
(* none) and the lines printed before it.                                  *)
(***************************************************************************)
Ok(lines) == [exc |-> "none", out |-> lines]
Raise(e, lines) == [exc |-> e, out |-> lines]

\* A then B: B runs only when A raised nothing
Then(A, B) ==
    { IF a.exc # "none" THEN a ELSE [exc |-> b.exc, out |-> a.out \o b.out] :
        a \in A, b \in B }

\* print(f"{label}{x[p1][p2]...}")
PrintPath(label, x, path) ==
    IF GetPathExc(x, path) # "none"
    THEN {Raise(GetPathExc(x, path), <<>>)}
    ELSE {Ok(<<label \o PyStr(GetPath(x, path))>>)}

\* print(f"{label}\"{x[p1][p2]...}\"")
PrintQuoted(label, x, path) ==
    IF GetPathExc(x, path) # "none"
    THEN {Raise(GetPathExc(x, path), <<>>)}
    ELSE {Ok(<<label \o "\"" \o PyStr(GetPath(x, path)) \o "\"">>)}

\* print(f"{label}{x.get(k, 'N/A')}")
PrintGet(label, x, k) ==
    IF PyGetExc(x) # "none"
    THEN {Raise(PyGetExc(x), <<>>)}
    ELSE {Ok(<<label \o PyStr(PyGet(x, k, Str("N/A")))>>)}

\* f"{secret[:visibleChars]}...", where the slice raises nothing
Truncate(secret, visibleChars) == PyStr(PySlice(secret, visibleChars)) \o Ellipsis

\* print(f"  Storage Key: {config['azure']['storage']['key'][:20]}...")
PrintKey(x) ==
    LET path == <<"azure", "storage", "key">> IN
    IF GetPathExc(x, path) # "none"
    THEN {Raise(GetPathExc(x, path), <<>>)}
    ELSE IF PySliceExcs(GetPath(x, path)) # {}
    THEN {Raise(e, <<>>) : e \in PySliceExcs(GetPath(x, path))}
    ELSE {Ok(<<"  Storage Key: " \o Truncate(GetPath(x, path), VisibleChars)>>)}

\* The condition of the if statement: the exception it raises, "none" when none
AzureTestExc(c) ==
    IF PyInExc(c) # "none" THEN PyInExc(c)
    ELSE IF ~PyIn("azure", c) THEN "none"
    ELSE IF PyGetItemExc(c, "azure") # "none" THEN PyGetItemExc(c, "azure")
    ELSE PyInExc(PyGetItem(c, "azure"))

\* "azure" in config and "storage" in config["azure"], where it raises nothing
AzureTest(c) == PyIn("azure", c) /\ PyIn("storage", PyGetItem(c, "azure"))

\* The guarded block printing the three storage fields.
ReadAzureOutcomes(c) ==
    IF AzureTestExc(c) # "none" THEN {Raise(AzureTestExc(c), <<>>)}
    ELSE IF ~AzureTest(c) THEN {Ok(<<>>)}
    ELSE Then(Then(PrintPath("  Storage Account: ", c, <<"azure", "storage", "account">>),
                   PrintKey(c)),
              PrintPath("  Container: ", c, <<"azure", "storage", "container">>))

ReadCreatedOutcomes(c) ==
    Then(Then(PrintGet("  Created At: ", c, "created_at"),
              PrintGet("  Created By: ", c, "created_by")),
         {Ok(<<"">>)})

ReadBlobUrlOutcomes(c) ==
    IF PyInExc(c) # "none" THEN {Raise(PyInExc(c), <<>>)}
    ELSE IF ~PyIn("blob_url", c) THEN {Ok(<<>>)}
    ELSE Then(Then(PrintPath("Would connect to: ", c, <<"blob_url">>),
                   PrintGet("   Using account: ", c, "storage_account")),
              {Ok(<<"">>)})

(***************************************************************************)
(* The update step.  The result is the exception raised and the document   *)
(* as the statements executed before it left it.                           *)
(***************************************************************************)
\* config["python_processed_at"] = ...; config["python_version"] = ...
MergeTop(c, ts, vi) ==
    PySetItem(PySetItem(c, "python_processed_at", Str(ts)),
              "python_version", Str(VersionStr(vi)))

\* if "python" not in config: config["python"] = {}
MergeDefault(c) ==
    IF ~PyIn("python", c) THEN PySetItem(c, "python", Map(<<>>)) ELSE c

\* config["python"]["packages"] = {...}; config["python"]["features"] = {...}
MergeNested(c) ==
    PySetItem(c, "python",
        PySetItem(PySetItem(PyGetItem(c, "python"), "packages", Packages),
                  "features", Features))

MergeOutcome(c, ts, vi) ==
    IF PySetItemExc(c) # "none" THEN [exc |-> PySetItemExc(c), doc |-> c]
    ELSE LET c3 == MergeDefault(MergeTop(c, ts, vi)) IN
         IF PySetItemExc(PyGetItem(c3, "python")) # "none"
         THEN [exc |-> PySetItemExc(PyGetItem(c3, "python")), doc |-> c3]
         ELSE [exc |-> "none", doc |-> MergeNested(c3)]

(***************************************************************************)
(* json.dump(obj, f, indent=2) and json.load(f), as CPython's json package *)
(* computes them (json/encoder.py, json/decoder.py, json/scanner.py), over *)
(* texts of printable ASCII, newline, tab, carriage return and form feed.  *)
(* Floating-point numbers and \uXXXX escapes are outside the modelled      *)
(* values: a text holding one is not read.                                 *)
(***************************************************************************)
Indent == 2

\* ESCAPE_DCT
EscapeChar(c) ==
    CASE c = "\"" -> "\\\""
      [] c = "\\" -> "\\\\"
      [] c = "\n" -> "\\n"
      [] c = "\r" -> "\\r"
      [] c = "\t" -> "\\t"
      [] c = "\f" -> "\\f"
      [] OTHER -> c

RECURSIVE EscapeFrom(_, _)
EscapeFrom(s, i) ==
    IF i > Len(s) THEN "" ELSE EscapeChar(SubSeq(s, i, i)) \o EscapeFrom(s, i + 1)

\* A bug variant of EncodeString: nothing is escaped.
EncodeStringRaw(s) == "\"" \o s \o "\""

\* encode_basestring_ascii
EncodeString(s) == "\"" \o EscapeFrom(s, 1) \o "\""

\* '\n' + _indent * _current_indent_level
NewlineIndent(level) == "\n" \o Rep(" ", Indent * level)

RECURSIVE Dumps(_, _)
RECURSIVE DumpItems(_, _, _)
RECURSIVE DumpPairs(_, _, _)
\* _iterencode, _iterencode_list, _iterencode_dict with item separator ","
\* and key separator ": "
Dumps(x, level) ==
    CASE x.t = "str" -> EncodeString(x.v)
      [] x.t = "null" -> "null"
      [] x.t = "bool" -> IF x.v THEN "true" ELSE "false"
      [] x.t = "num" -> IntStr(x.v)
      [] x.t = "list" ->
            IF x.v = <<>> THEN "[]"
            ELSE "[" \o NewlineIndent(level + 1) \o DumpItems(x.v, 1, level + 1)
                 \o NewlineIndent(level) \o "]"
      [] x.t = "map" ->
            IF x.v = <<>> THEN "{}"
            ELSE "{" \o NewlineIndent(level + 1) \o DumpPairs(x.v, 1, level + 1)
                 \o NewlineIndent(level) \o "}"

DumpItems(s, i, level) ==
    Dumps(s[i], level)
    \o (IF i = Len(s) THEN ""
        ELSE "," \o NewlineIndent(level) \o DumpItems(s, i + 1, level))

DumpPairs(s, i, level) ==
    EncodeString(s[i][1]) \o ": " \o Dumps(s[i][2], level)
    \o (IF i = Len(s) THEN ""
        ELSE "," \o NewlineIndent(level) \o DumpPairs(s, i + 1, level))

\* The text json.dump(obj, f, indent=2) writes.
JsonDump(obj) == Dumps(obj, 0)

\* s[i:i + 1]
At(s, i) == IF i >= 1 /\ i <= Len(s) THEN SubSeq(s, i, i) ELSE ""

\* The result of a scan: whether it succeeded, the value, and the index after
\* it.
Scanned(val, end) == [ok |-> TRUE, val |-> val, end |-> end]
ScanFail == [ok |-> FALSE, val |-> Null, end |-> 0]

\* WHITESPACE.match(s, i).end()
RECURSIVE SkipWs(_, _)
SkipWs(s, i) ==
    IF At(s, i) \in {" ", "\t", "\n", "\r"} THEN SkipWs(s, i + 1) ELSE i

\* BACKSLASH, without the backspace, which no text of the model holds
Unescape(c) ==
    CASE c = "\"" -> "\""
      [] c = "\\" -> "\\"
      [] c = "/" -> "/"
      [] c = "f" -> "\f"
      [] c = "n" -> "\n"
      [] c = "r" -> "\r"
      [] c = "t" -> "\t"
      [] OTHER -> ""

\* py_scanstring from index i, after the opening quote, with the characters
\* decoded so far
RECURSIVE ScanString(_, _, _)
ScanString(s, i, acc) ==
    CASE At(s, i) = "" -> ScanFail
      [] At(s, i) = "\"" -> Scanned(Str(acc), i + 1)
      [] At(s, i) = "\\" ->
            IF Unescape(At(s, i + 1)) = "" THEN ScanFail
            ELSE ScanString(s, i + 2, acc \o Unescape(At(s, i + 1)))
      [] At(s, i) \in {"\n", "\r", "\t", "\f"} -> ScanFail
      [] OTHER -> ScanString(s, i + 1, acc \o At(s, i))

IsDigit(c) == c # "" /\ IsSubstring(c, "0123456789")
DigitValue(c) == (CHOOSE d \in 0..9 : Digit(d) = c)

\* the digits from index i on, read as a number continuing n
RECURSIVE ScanDigits(_, _, _)
ScanDigits(s, i, n) ==
    IF IsDigit(At(s, i)) THEN ScanDigits(s, i + 1, 10 * n + DigitValue(At(s, i)))
    ELSE Scanned(Num(n), i)

\* NUMBER_RE and parse_int: -?(0|[1-9]\d*) with no fraction and no exponent
ScanNumber(s, i) ==
    LET neg == At(s, i) = "-"
        j == IF neg THEN i + 1 ELSE i
        r == IF At(s, j) = "0" THEN Scanned(Num(0), j + 1) ELSE ScanDigits(s, j, 0)
    IN IF ~IsDigit(At(s, j)) THEN ScanFail
       ELSE IF At(s, r.end) \in {".", "e", "E"} THEN ScanFail
       ELSE Scanned(Num(IF neg THEN -r.val.v ELSE r.val.v), r.end)

RECURSIVE ScanOnce(_, _)
RECURSIVE ObjectLoop(_, _, _)
RECURSIVE ArrayLoop(_, _, _)

\* JSONObject from index i, after the opening brace
JSONObject(s, i) ==
    LET j == SkipWs(s, i) IN
    IF At(s, j) = "}" THEN Scanned(Map(<<>>), j + 1)
    ELSE IF At(s, j) # "\"" THEN ScanFail
    ELSE ObjectLoop(s, j + 1, <<>>)

\* The loop of JSONObject from index i, after the opening quote of a key;
\* dict(pairs) keeps a repeated key where it first stood, with its last value
ObjectLoop(s, i, pairs) ==
    LET key == ScanString(s, i, "")
        colon == SkipWs(s, key.end)
        value == ScanOnce(s, SkipWs(s, colon + 1))
        more == SetKey(pairs, key.val.v, value.val)
        j == SkipWs(s, value.end)
        k == SkipWs(s, j + 1)
    IN IF ~key.ok THEN ScanFail
       ELSE IF At(s, colon) # ":" THEN ScanFail
       ELSE IF ~value.ok THEN ScanFail
       ELSE IF At(s, j) = "}" THEN Scanned(Map(more), j + 1)
       ELSE IF At(s, j) # "," THEN ScanFail
       ELSE IF At(s, k) # "\"" THEN ScanFail
       ELSE ObjectLoop(s, k + 1, more)

\* JSONArray from index i, after the opening bracket
JSONArray(s, i) ==
    LET j == SkipWs(s, i) IN
    IF At(s, j) = "]" THEN Scanned(List(<<>>), j + 1) ELSE ArrayLoop(s, j, <<>>)

ArrayLoop(s, i, values) ==
    LET value == ScanOnce(s, i)
        j == SkipWs(s, value.end)
    IN IF ~value.ok THEN ScanFail
       ELSE IF At(s, j) = "]" THEN Scanned(List(Append(values, value.val)), j + 1)
       ELSE IF At(s, j) # "," THEN ScanFail
       ELSE ArrayLoop(s, SkipWs(s, j + 1), Append(values, value.val))

\* _scan_once
ScanOnce(s, i) ==
    CASE At(s, i) = "\"" -> ScanString(s, i + 1, "")
      [] At(s, i) = "{" -> JSONObject(s, i + 1)
      [] At(s, i) = "[" -> JSONArray(s, i + 1)
      [] At(s, i) = "n" /\ i + 3 <= Len(s) /\ SubSeq(s, i, i + 3) = "null" ->
            Scanned(Null, i + 4)
      [] At(s, i) = "t" /\ i + 3 <= Len(s) /\ SubSeq(s, i, i + 3) = "true" ->
            Scanned(Bool(TRUE), i + 4)
      [] At(s, i) = "f" /\ i + 4 <= Len(s) /\ SubSeq(s, i, i + 4) = "false" ->
            Scanned(Bool(FALSE), i + 5)
      [] OTHER -> ScanNumber(s, i)

\* JSONDecoder.decode: one value, with nothing but whitespace around it
Decode(s) ==
    LET r == ScanOnce(s, SkipWs(s, 1)) IN
    IF r.ok /\ SkipWs(s, r.end) = Len(s) + 1 THEN r ELSE ScanFail

\* The exception json.load raises on a text, "none" when it raises none
JsonLoadExc(text) == IF Decode(text).ok THEN "none" ELSE "JSONDecodeError"

\* The value json.load returns, where it raises nothing
JsonLoad(text) == Decode(text).val

(***************************************************************************)
(* The file system.  A file is absent, holds text, or is there but cannot  *)
(* be opened.                                                              *)
(***************************************************************************)
Absent == [kind |-> "absent", text |-> ""]
TextFile(text) == [kind |-> "file", text |-> text]
Unreadable == [kind |-> "unreadable", text |-> ""]

\* A file the run has no business with (the script named in the docstring).
other_file == "interop_demo.sh"
Paths == {config_file, output_file, other_file}

(***************************************************************************)
(* Bounds and the inputs drawn from them                                   *)
(***************************************************************************)
MaxKeyLen == 22

KeyChars == "0123456789abcdefghijKEYTAIL"

RECURSIVE KeyOfLen(_)
KeyOfLen(n) ==
    IF n = 0 THEN ""
    ELSE KeyOfLen(n - 1) \o SubSeq(KeyChars, ((n - 1) % Len(KeyChars)) + 1,
                                   ((n - 1) % Len(KeyChars)) + 1)

StorageFull(key) ==
    Map(<< <<"account", Str("acct1")>>, <<"key", key>>, <<"container", Str("c1")>> >>)

StorageValues ==
    {StorageFull(Str(KeyOfLen(n))) : n \in 0..MaxKeyLen}
    \cup {StorageFull(Str(KeyChars))}
    \cup {StorageFull(k) : k \in {Num(12345), Null, Bool(TRUE), Map(<<>>),
                                  List(<<Num(1), Num(2)>>)}}
    \cup {Map(<<>>),
          Map(<< <<"account", Str("acct1")>> >>),
          Map(<< <<"account", Str("acct1")>>, <<"key", Str("k")>> >>),
          Str("account"), Num(1), Null, List(<<Str("account")>>)}

AzureValues ==
    {Map(<< <<"storage", s>> >>) : s \in StorageValues}
    \cup {Map(<<>>), Map(<< <<"region", Str("westus")>> >>),
          Str("azure-storage"), Str("x"), Num(5), Null, Bool(FALSE),
          List(<<Str("storage")>>), List(<<>>)}

AzureFull == Map(<< <<"storage", StorageFull(Str(KeyChars))>> >>)

\* The pairs a document starts with: no azure key, or one of the values.
AzureHeads == {<<>>} \cup {<< <<"azure", a>> >> : a \in AzureValues}

CreatedPairs ==
    { <<>>,
      << <<"created_at", Str("2024-01-01T00:00:00")>> >>,
      << <<"created_by", Str("ba\"sh\\ops\n")>>,
         <<"note \"q\"", List(<<Str("a\tb/c"), Num(-3), Num(0), Bool(FALSE), Null>>)>> >>,
      << <<"created_at", Str("2024-01-01T00:00:00")>>, <<"created_by", Str("bash")>> >> }

PythonValues ==
    { Map(<<>>),
      Map(<< <<"venv", Str(".venv")>> >>),
      Map(<< <<"packages", Map(<< <<"requests", Str("1.0.0")>>, <<"numpy", Str("1.26")>> >>)>>,
             <<"venv", Str(".venv")>>,
             <<"features", Map(<< <<"retry_count", Num(9)>>, <<"legacy", Bool(TRUE)>> >>)>>,
             <<"paths", List(<<Str("/usr/lib")>>)>> >>),
      Str("3.11"), Num(3), Null, Bool(TRUE), List(<<Str("packages")>>) }

PythonPairs == {<<>>} \cup {<< <<"python", p>> >> : p \in PythonValues}

BlobPairs ==
    { <<>>,
      << <<"blob_url", Str("https://acct1.blob.core.windows.net/c1")>> >>,
      << <<"blob_url", Str("https://acct1.blob.core.windows.net/c1")>>,
         <<"storage_account", Str("acct1")>> >>,
      << <<"storage_account", Num(7)>>, <<"python_version", Str("2.7.18")>> >> }

Timestamps == {"2024-01-01T00:00:00", "2025-03-09T08:07:06.000005"}
VersionInfos == {<<3, 11, 4>>, <<3, 12, 0>>}

CreatedFull ==
    << <<"created_at", Str("2024-01-01T00:00:00")>>, <<"created_by", Str("bash")>> >>

BlobFull ==
    << <<"blob_url", Str("https://acct1.blob.core.windows.net/c1")>>,
       <<"storage_account", Str("acct1")>> >>

\* JSON objects a producer may have written: every azure shape without and
\* with a python block, and every combination of the other keys with the
\* full azure block.
ProducerDocs ==
    {Map(a \o CreatedFull \o p \o BlobFull) :
        a \in AzureHeads, p \in {<<>>, << <<"python", Map(<< <<"venv", Str(".venv")>> >>)>> >>}}
    \cup {Map(<< <<"azure", AzureFull>> >> \o c \o p \o b) :
             c \in CreatedPairs, p \in PythonPairs, b \in BlobPairs}

\* Documents an earlier run of main() wrote.
EarlierOutputs ==
    {MergeOutcome(d, ts, vi).doc :
        d \in {Map(<<>>), Map(<< <<"azure", AzureFull>> >> \o CreatedFull)},
        ts \in Timestamps, vi \in VersionInfos}

\* Valid JSON texts that are not objects.
ScalarDocs ==
    {List(<<>>), List(<<Str("azure")>>), Str("azure"), Str("x"), Num(42), Null,
     Bool(TRUE)}

InputDocs == ProducerDocs \cup EarlierOutputs \cup ScalarDocs

\* Texts a producer wrote by hand: the compact form of the end-to-end
\* scenario, an object that repeats a key, and an object whose strings hold
\* a quote, a backslash, a newline and a tab.
HandWrittenTexts ==
    { "{\"azure\":{\"storage\":{\"account\":\"acct1\",\"key\":\"0123456789abcdefghijKEYTAIL\",\"container\":\"c1\"}},\"created_at\":\"2024-01-01T00:00:00\",\"created_by\":\"bash\"}",
      " { \"created_by\" : \"bash\" , \"python\" : [ ] ,\t\"python\" : { \"venv\" : -1 } }\n",
      "{\"created_by\":\"ba\\\"sh\\\\ops\\n\",\"note \\\"q\\\"\":[\"a\\tb/c\",-3,0,false,null],\"python\":{\"paths\":[\"/usr/lib\"]}}" }

\* Texts that are not JSON.
MalformedTexts == {"", "{bad", "{\"azure\": ", "[1,]", "{\"a\": 1} x"}

InputFiles ==
    {Absent, Unreadable}
    \cup {TextFile(JsonDump(d)) : d \in InputDocs}
    \cup {TextFile(t) : t \in HandWrittenTexts \cup MalformedTexts}

\* What the output path holds before the run: nothing, or an earlier output.
OutputFiles == {Absent, TextFile(JsonDump(Map(<< <<"stale", Bool(TRUE)>> >>)))}

OtherFile == TextFile("#!/bin/bash")

(***************************************************************************)
(* main()                                                                  *)
(***************************************************************************)
Init ==
    /\ pc = "exists"
    /\ files \in {[p \in Paths |-> CASE p = config_file -> i
                                     [] p = output_file -> o
                                     [] OTHER -> OtherFile] :
                     i \in InputFiles, o \in OutputFiles}
    /\ files0 = files
    /\ opened = <<>>
    /\ loaded = Null
    /\ config = Null
    /\ stdout = <<>>
    /\ ret = -1
    /\ exc = "none"
    /\ now = ""
    /\ version_info \in VersionInfos

\* Path.exists(): a file that cannot be opened exists all the same
Exists(path) == files[path].kind # "absent"

\* A bug variant of CheckExists: the check does not return.
CheckExistsFallThrough ==
    /\ pc = "exists"
    /\ stdout' = stdout \o <<Banner, "Python Reading Configuration Created by Bash",
                             Banner, "">>
    /\ pc' = "load"
    /\ UNCHANGED <<files, files0, opened, loaded, config, ret, exc, now, version_info>>

\* The header and the existence check.
CheckExists ==
    /\ pc = "exists"
    /\ IF ~Exists(config_file)
       THEN /\ stdout' = stdout \o <<Banner, "Python Reading Configuration Created by Bash",
                                     Banner, "",
                                     "Error: azure_credentials.json not found",
                                     "   Run example_usage.sh first to create the configuration">>
            /\ ret' = 1
            /\ pc' = "done"
       ELSE /\ stdout' = stdout \o <<Banner, "Python Reading Configuration Created by Bash",
                                     Banner, "">>
            /\ ret' = ret
            /\ pc' = "load"
    /\ UNCHANGED <<files, files0, opened, loaded, config, exc, now, version_info>>

\* The exception open(path) raises for reading, "none" when none
OpenReadExc(path) ==
    CASE files[path].kind = "absent" -> "FileNotFoundError"
      [] files[path].kind = "unreadable" -> "PermissionError"
      [] OTHER -> "none"

\* with open(config_file) as f: config = json.load(f)
Load ==
    /\ pc = "load"
    /\ opened' = Append(opened, <<config_file, "r">>)
    /\ IF OpenReadExc(config_file) # "none"
       THEN /\ exc' = OpenReadExc(config_file)
            /\ pc' = "raised"
            /\ UNCHANGED <<config, loaded, stdout>>
       ELSE IF JsonLoadExc(files[config_file].text) # "none"
       THEN /\ exc' = JsonLoadExc(files[config_file].text)
            /\ pc' = "raised"
            /\ UNCHANGED <<config, loaded, stdout>>
       ELSE /\ config' = JsonLoad(files[config_file].text)
            /\ loaded' = JsonLoad(files[config_file].text)
            /\ stdout' = stdout \o <<"Configuration loaded from Bash-created file:", "">>
            /\ exc' = exc
            /\ pc' = "read_azure"
    /\ UNCHANGED <<files, files0, ret, now, version_info>>

\* A step that only reads config and prints: it goes on to `next` unless it
\* raises.
ReadStep(at, outcomes, next) ==
    /\ pc = at
    /\ \E o \in outcomes :
        /\ stdout' = stdout \o o.out
        /\ exc' = o.exc
        /\ pc' = IF o.exc = "none" THEN next ELSE "raised"
    /\ UNCHANGED <<files, files0, opened, loaded, config, ret, now, version_info>>

ReadAzure == ReadStep("read_azure", ReadAzureOutcomes(config), "read_created")

ReadCreated == ReadStep("read_created", ReadCreatedOutcomes(config), "read_blob")

ReadBlobUrl ==
    ReadStep("read_blob",
             Then({Ok(<<Banner, "Python Processing Data", Banner, "">>)},
                  ReadBlobUrlOutcomes(config)),
             "merge")

\* The update step, with the timestamp datetime.now() yields.
Merge ==
    /\ pc = "merge"
    /\ \E ts \in Timestamps :
        /\ now' = ts
        /\ config' = MergeOutcome(config, ts, version_info).doc
        /\ exc' = MergeOutcome(config, ts, version_info).exc
        /\ pc' = IF MergeOutcome(config, ts, version_info).exc = "none"
                 THEN "save" ELSE "raised"
    /\ stdout' = stdout \o <<Banner, "Python Updating Configuration", Banner, "">>
    /\ UNCHANGED <<files, files0, opened, loaded, ret, version_info>>

\* A bug variant of SavePath: the result is written over the input.
SavePathInPlace == config_file

\* The path the result is written to.
SavePath == output_file

\* A bug variant of Save: the document is written before the update step,
\* which is skipped.
SaveBeforeMerge ==
    /\ pc = "merge"
    /\ opened' = Append(opened, <<SavePath, "w">>)
    /\ files' = [files EXCEPT ![SavePath] = TextFile(JsonDump(config))]
    /\ pc' = "report"
    /\ UNCHANGED <<files0, loaded, config, stdout, ret, exc, now, version_info>>

\* with open(output_file, 'w') as f: json.dump(config, f, indent=2)
\* The open may fail (the file is left as it was), and a write may fail
\* after the open has truncated the file (a part of the text is left: none
\* of it, or its first half).
Save ==
    /\ pc = "save"
    /\ opened' = Append(opened, <<SavePath, "w">>)
    /\ \/ /\ files' = [files EXCEPT ![SavePath] = TextFile(JsonDump(config))]
          /\ exc' = exc
          /\ pc' = "report"
       \/ /\ files' = files
          /\ exc' = "PermissionError"
          /\ pc' = "raised"
       \/ /\ \E n \in {0, Len(JsonDump(config)) \div 2} :
                files' = [files EXCEPT
                             ![SavePath] = TextFile(SubSeq(JsonDump(config), 1, n))]
          /\ exc' = "OSError"
          /\ pc' = "raised"
    /\ UNCHANGED <<files0, loaded, config, stdout, ret, now, version_info>>

ReportOutcomes(c) ==
    Then(Then(Then({Ok(<<"Updated configuration saved to " \o output_file, "",
                         "Python processing complete!", "",
                         Banner, "Bidirectional Updates", Banner, "",
                         "Bash can now read Python's updates:">>)},
                   PrintQuoted("   config[python__version]=", c, <<"python_version">>)),
              PrintQuoted("   config[python__features__async_enabled]=", c,
                          <<"python", "features", "async_enabled">>)),
         Then(PrintQuoted("   config[python__packages__requests]=", c,
                          <<"python", "packages", "requests">>),
              {Ok(<<"",
                    "This demonstrates true bidirectional configuration sharing!",
                    "   No translation layer, no duplication, just pure JSON.">>)}))

\* The closing report and return 0.
Report ==
    /\ pc = "report"
    /\ \E o \in ReportOutcomes(config) :
        /\ stdout' = stdout \o o.out
        /\ exc' = o.exc
        /\ pc' = IF o.exc = "none" THEN "done" ELSE "raised"
        /\ ret' = IF o.exc = "none" THEN 0 ELSE ret
    /\ UNCHANGED <<files, files0, opened, loaded, config, now, version_info>>

Next ==
    \/ CheckExists
    \/ Load
    \/ ReadAzure
    \/ ReadCreated
    \/ ReadBlobUrl
    \/ Merge
    \/ Save
    \/ Report

Spec == Init /\ [][Next]_vars

\* The run is over: main() returned, or an exception left it.
Finished == pc \in {"done", "raised"}

\* sys.exit(main()): the status the process ends with (ret is -1 until main()
\* returns); an uncaught exception ends it with a traceback and status 1
ExitStatus == IF exc # "none" THEN 1 ELSE ret

(***************************************************************************)
(* Vocabulary of the properties                                            *)
(***************************************************************************)
InputFile == files0[config_file]

\* The document json.load returned (null until it has)
InputDoc == loaded

\* The load step has returned a JSON object.
InputIsObject == InputDoc.t = "map"

\* The output file holds the text of a JSON value.
OutputIsJson ==
    files[output_file].kind = "file" /\ JsonLoadExc(files[output_file].text) = "none"

\* The document the output file holds, where its text is JSON
OutputDoc == JsonLoad(files[output_file].text)

\* The opens for writing so far
WriteOpens == {i \in 1..Len(opened) : opened[i][2] = "w"}

\* The keys the update step sets at the top level
UpdateKeys == {"python_processed_at", "python_version", "python"}

\* An exception left one of the field-reading steps: the update step, which
\* sets `now` first of all, was not reached.
ReadRaised ==
    /\ pc = "raised"
    /\ now = ""
    /\ exc \in {"TypeError", "KeyError", "AttributeError"}

\* An exception left the update step.
MergeRaised == pc = "raised" /\ now # "" /\ WriteOpens = {}

\* The environment refused the open or the write of the output file.
SaveRaised == pc = "raised" /\ WriteOpens # {}

\* The save step has written the document.
Saved == pc = "report" \/ (pc = "done" /\ ret = 0)

\* The update step has completed.
Merged == pc = "save" \/ Saved \/ SaveRaised

\* The result of the update step applied to the input document
MergedInput == MergeOutcome(InputDoc, now, version_info)

(***************************************************************************)
(* C1  Missing-file behaviour: when azure_credentials.json is absent at    *)
(* the start, the run opens no file, changes no file (the output path is   *)
(* neither created nor written), raises nothing, and ends returning 1.     *)
(***************************************************************************)
C1_MissingFile ==
    InputFile.kind = "absent" =>
        /\ files = files0
        /\ opened = <<>>
        /\ exc = "none"
        /\ pc \in {"exists", "done"}
        /\ pc = "done" => (ret = 1 /\ ExitStatus = 1)

C1_Witness ==
    /\ InputFile.kind = "absent"
    /\ files0[output_file].kind = "absent"
    /\ pc = "done"
    /\ ExitStatus = 1

(***************************************************************************)
(* C2  Non-destructive augmentation: once the run has saved its document,  *)
(* every top-level key of the input document other than                    *)
(* python_processed_at, python_version and python is in the saved document *)
(* with the value it has in the input.                                     *)
(***************************************************************************)
C2_NonDestructive ==
    Saved =>
        LET out == OutputDoc IN
        /\ OutputIsJson
        /\ \A i \in 1..Len(InputDoc.v) :
             InputDoc.v[i][1] \notin UpdateKeys =>
                /\ PyGetItemExc(out, InputDoc.v[i][1]) = "none"
                /\ PyGetItem(out, InputDoc.v[i][1]) = InputDoc.v[i][2]

C2_Witness ==
    /\ pc = "done"
    /\ ret = 0
    /\ PyIn("azure", InputDoc)
    /\ PyIn("storage_account", InputDoc)
    /\ PyIn("python_version", InputDoc)
    /\ PyIn("python", InputDoc)
    /\ OutputIsJson
    /\ PyGetItem(OutputDoc, "azure") = PyGetItem(InputDoc, "azure")

(***************************************************************************)
(* C3  Default-on-absence, as claimed: for an input that is a JSON object, *)
(* no read of a nested field raises; the run goes on to the update step.   *)
(***************************************************************************)
C3_ReadsNeverFail == InputIsObject => ~ReadRaised

(***************************************************************************)
(* C4  Truncate safety, as claimed: when the storage key is a string s and *)
(* the line showing it has been printed, what the line shows is no longer  *)
(* than VisibleChars plus the ellipsis, and is s itself when               *)
(* Len(s) <= VisibleChars.                                                 *)
(***************************************************************************)
KeyPath == <<"azure", "storage", "key">>
KeyLabel == "  Storage Key: "

\* The input has azure.storage.account, a string at azure.storage.key and
\* azure.storage.container, and the step printing them has run.
KeyShown ==
    /\ InputIsObject
    /\ GetPathExc(InputDoc, <<"azure", "storage", "account">>) = "none"
    /\ GetPathExc(InputDoc, KeyPath) = "none"
    /\ GetPath(InputDoc, KeyPath).t = "str"
    /\ GetPathExc(InputDoc, <<"azure", "storage", "container">>) = "none"
    /\ pc \notin {"exists", "load", "read_azure"}

\* C4: the line showing a string key is within the length bound and shows a
\* key of at most VisibleChars characters unchanged.
C4_TruncateSafety ==
    KeyShown =>
        \E i \in 1..Len(stdout) :
            /\ Len(stdout[i]) >= Len(KeyLabel)
            /\ SubSeq(stdout[i], 1, Len(KeyLabel)) = KeyLabel
            /\ Len(stdout[i]) - Len(KeyLabel) <= VisibleChars + Len(Ellipsis)
            /\ Len(GetPath(InputDoc, KeyPath).v) <= VisibleChars =>
                  stdout[i] = KeyLabel \o GetPath(InputDoc, KeyPath).v

(***************************************************************************)
(* C5  Successful-run output, as claimed: when the input is a JSON object  *)
(* and the environment refuses neither the open nor the write of the       *)
(* output file, the run ends with status 0 and the output file holds every *)
(* top-level key of the input, python_processed_at, python_version,        *)
(* python.packages with requests "2.31.0" and python.features with         *)
(* async_enabled true, retry_count 3 and timeout_seconds 30.               *)
(***************************************************************************)
HasAt(d, path, val) == GetPathExc(d, path) = "none" /\ GetPath(d, path) = val

OutputComplete ==
    LET out == OutputDoc IN
    /\ OutputIsJson
    /\ \A i \in 1..Len(InputDoc.v) : PyIn(InputDoc.v[i][1], out)
    /\ HasAt(out, <<"python_processed_at">>, Str(now))
    /\ HasAt(out, <<"python_version">>, Str(VersionStr(version_info)))
    /\ HasAt(out, <<"python", "packages", "requests">>, Str("2.31.0"))
    /\ HasAt(out, <<"python", "features", "async_enabled">>, Bool(TRUE))
    /\ HasAt(out, <<"python", "features", "retry_count">>, Num(3))
    /\ HasAt(out, <<"python", "features", "timeout_seconds">>, Num(30))

\* C5: a finished run on a JSON object, its save not refused, ended with
\* status 0 and the complete output.
C5_SuccessfulRun ==
    (InputIsObject /\ Finished /\ ~SaveRaised) => (ExitStatus = 0 /\ OutputComplete)

(***************************************************************************)
(* C6  Source file untouched: in every state of every run the input file   *)
(* holds what it held at the start, as does every file other than the      *)
(* output path; every open for writing is of the output path, which is not *)
(* the input path.                                                         *)
(***************************************************************************)
C6_SourceUntouched ==
    /\ files[config_file] = files0[config_file]
    /\ \A p \in Paths \ {output_file} : files[p] = files0[p]
    /\ \A i \in WriteOpens : opened[i][1] = output_file
    /\ output_file # config_file

C6_Witness ==
    /\ pc = "done"
    /\ ret = 0
    /\ files[output_file] # files0[output_file]
    /\ files[config_file] = files0[config_file]

(***************************************************************************)
(* C7  Merge idempotence: once the update step has completed, applying it  *)
(* again with the same timestamp and version raises nothing and leaves the *)
(* document as it is; and a run fed the saved output as its input, with    *)
(* the same timestamp and version, reads its fields without raising and    *)
(* produces the same document.                                             *)
(***************************************************************************)
C7_MergeIdempotent ==
    /\ Merged => MergeOutcome(config, now, version_info) = [exc |-> "none", doc |-> config]
    /\ Saved =>
        LET out == OutputDoc IN
        /\ OutputIsJson
        /\ \A o \in ReadAzureOutcomes(out) \cup ReadCreatedOutcomes(out)
                    \cup ReadBlobUrlOutcomes(out) : o.exc = "none"
        /\ MergeOutcome(out, now, version_info) = [exc |-> "none", doc |-> out]

\* A run whose input is the output of an earlier run with the same timestamp
\* and version: the output equals the input.
C7_Witness ==
    /\ pc = "done"
    /\ ret = 0
    /\ InputDoc \in EarlierOutputs
    /\ PyIn("azure", InputDoc)
    /\ files[output_file] = files0[config_file]

(***************************************************************************)
(* C8  Round trip: the text json.dump writes for a document the run holds  *)
(* (as the load step returned it, and as the update step left it) is read  *)
(* back by json.load as that document; and the output file, when the save  *)
(* step has written it, reads back as the document that was saved.  The    *)
(* documents are built of strings, integers, booleans, null, mappings and  *)
(* sequences.                                                              *)
(***************************************************************************)
C8_RoundTrip ==
    /\ (pc \in {"read_azure", "save"} \/ MergeRaised) =>
         /\ JsonLoadExc(JsonDump(config)) = "none"
         /\ JsonLoad(JsonDump(config)) = config
    /\ pc = "report" => (OutputIsJson /\ OutputDoc = config)

\* A saved document with strings that need escaping, a nested sequence and
\* negative numbers.
C8_Witness ==
    /\ pc = "done"
    /\ ret = 0
    /\ HasAt(config, <<"created_by">>, Str("ba\"sh\\ops\n"))
    /\ PyIn("note \"q\"", config)
    /\ HasAt(config, <<"python", "paths">>, List(<<Str("/usr/lib")>>))
    /\ OutputDoc = config

(***************************************************************************)
(* C9  Shallow merge of the python block, as claimed: for an input object  *)
(* that has a python key, the update step completes whatever value python  *)
(* held, keeps every nested key of python other than packages and features *)
(* unchanged, and sets packages and features to exactly the new mappings.  *)
(***************************************************************************)
C9_PythonBlock ==
    (InputIsObject /\ PyIn("python", InputDoc) /\ now # "") =>
        /\ ~MergeRaised
        /\ HasAt(config, <<"python", "packages">>, Packages)
        /\ HasAt(config, <<"python", "features">>, Features)
        /\ PyGetItem(InputDoc, "python").t = "map"
        /\ \A i \in 1..Len(PyGetItem(InputDoc, "python").v) :
             LET k == PyGetItem(InputDoc, "python").v[i][1] IN
             k \notin {"packages", "features"} =>
                HasAt(config, <<"python", k>>, PyGetItem(InputDoc, "python").v[i][2])

(***************************************************************************)
(* C10  Pipeline ordering: the steps leave their marks on standard output  *)
(* in the order existence check, load, field reads, merge, save; the       *)
(* output file is opened for writing at most once, after the input was     *)
(* opened and the load, the reads and the merge have completed; while it   *)
(* has not been opened the output file is as it was at the start; and      *)
(* main() returns 0 only with the merged document in the output file.      *)
(***************************************************************************)
Marks ==
    << "Python Reading Configuration Created by Bash",
       "Configuration loaded from Bash-created file:",
       "Python Processing Data",
       "Python Updating Configuration",
       "Updated configuration saved to " \o output_file >>

IsMark(line) == \E i \in 1..Len(Marks) : Marks[i] = line

\* C10: marks in pipeline order; at most one open for writing, after load,
\* reads and merge; output untouched before it; return 0 only once saved.
C10_PipelineOrder ==
    /\ \E k \in 0..Len(Marks) : SelectSeq(stdout, IsMark) = SubSeq(Marks, 1, k)
    /\ Cardinality(WriteOpens) <= 1
    /\ WriteOpens # {} =>
         /\ opened = << <<config_file, "r">>, <<output_file, "w">> >>
         /\ \E k \in 4..Len(Marks) : SelectSeq(stdout, IsMark) = SubSeq(Marks, 1, k)
         /\ MergedInput = [exc |-> "none", doc |-> config]
    /\ WriteOpens = {} => files[output_file] = files0[output_file]
    /\ (pc = "done" /\ ret = 0) =>
         /\ WriteOpens # {}
         /\ files[output_file] = TextFile(JsonDump(MergedInput.doc))

C10_Witness ==
    /\ pc = "done"
    /\ ret = 0
    /\ Cardinality(WriteOpens) = 1
    /\ files0[output_file].kind = "file"
    /\ SelectSeq(stdout, IsMark) = Marks

====
